---- MODULE Spec2Model ----
(***************************************************************************)
(* A model of toxfile.py, the project-local tox plugin:                    *)
(*   - the pip-compile in-memory environments (PipCompileToxEnvBase and    *)
(*     its three subclasses) and the hooks that publish them;              *)
(*   - PinnedPipInstaller.post_process_install_command;                    *)
(*   - tox_before_run_commands.                                            *)
(* Strings are TLA+ strings; an argument list is a sequence of strings; a  *)
(* pathlib.Path is the sequence of its components.                         *)
(***************************************************************************)
EXTENDS Integers, Sequences, FiniteSets, TLC

(***************************************************************************)
(* Bounds of the model.                                                    *)
(***************************************************************************)
MaxPosArgs == 2
MaxCoreConfigCalls == 1
NumEnvs == 2
NumCmds == 1

(***************************************************************************)
(* The state.                                                              *)
(***************************************************************************)
VARIABLES
    python_tag,            \* get_runtime_python_tag() of this process
    pos_args,              \* state.conf.pos_args(to_path=None): None or a tuple
    memory_seed_loaders,   \* state.conf.memory_seed_loaders: env name -> loaders
    extended_envs,         \* what tox_extend_envs returned, << >> before it ran
    register               \* the host's ToxEnvRegister

lockVars == << pos_args, memory_seed_loaders, extended_envs, register >>

VARIABLES
    env_name,      \* the name of each tox env object of the process
    installer,     \* the env objects whose cached `installer` exists
    _non_existing_constraint_files,  \* the class attribute of PinnedPipInstaller
    files,         \* the constraint files that exist on disk
    cmd_args,      \* Command.args of each Command object
    missing_seen,  \* the installers that took the missing-file branch before
    last_call      \* what the latest post_process_install_command saw and logged

installerVars ==
    << env_name, installer, _non_existing_constraint_files, files, cmd_args,
       missing_seen, last_call >>

VARIABLES
    tox_env_name,           \* tox_env.name of the env the hook fires for
    allowlist_externals,    \* tox_env.conf['allowlist_externals']
    environment_variables,  \* tox_env.environment_variables
    hook_pc,                \* "idle", or "executing" while tox_env.execute runs
    allowlist_initial,      \* allowlist_externals as configured
    last_hook               \* what the latest firing of the hook saw and did

hookVars ==
    << tox_env_name, allowlist_externals, environment_variables, hook_pc,
       allowlist_initial, last_hook >>

vars == << python_tag, lockVars, installerVars, hookVars >>

(***************************************************************************)
(* Strings: shlex.join, shlex.quote, str.rstrip, str.strip.                *)
(***************************************************************************)
SafeChars ==
    { "a","b","c","d","e","f","g","h","i","j","k","l","m",
      "n","o","p","q","r","s","t","u","v","w","x","y","z",
      "A","B","C","D","E","F","G","H","I","J","K","L","M",
      "N","O","P","Q","R","S","T","U","V","W","X","Y","Z",
      "0","1","2","3","4","5","6","7","8","9",
      "_","@","%","+","=",":",",",".","/","-" }

Whitespace == { " ", "\n", "\t", "\r" }

CharAt(s, i) == SubSeq(s, i, i)

EndsWith(s, suffix) ==
    /\ Len(s) >= Len(suffix)
    /\ SubSeq(s, Len(s) - Len(suffix) + 1, Len(s)) = suffix

Contains(s, sub) ==
    \E i \in 1..(Len(s) - Len(sub) + 1) : SubSeq(s, i, i + Len(sub) - 1) = sub

\* s.replace("'", "'\"'\"'")
RECURSIVE EscapeQuotes(_)
EscapeQuotes(s) ==
    IF s = "" THEN ""
    ELSE (IF CharAt(s, 1) = "'" THEN "'\"'\"'" ELSE CharAt(s, 1))
         \o EscapeQuotes(SubSeq(s, 2, Len(s)))

\* shlex.quote
ShlexQuote(s) ==
    IF s = "" THEN "''"
    ELSE IF \A i \in 1..Len(s) : CharAt(s, i) \in SafeChars THEN s
    ELSE "'" \o EscapeQuotes(s) \o "'"

\* shlex.join: ' '.join(quote(arg) for arg in args)
RECURSIVE ShlexJoin(_)
ShlexJoin(args) ==
    IF Len(args) = 0 THEN ""
    ELSE IF Len(args) = 1 THEN ShlexQuote(args[1])
    ELSE ShlexQuote(args[1]) \o " " \o ShlexJoin(Tail(args))

RECURSIVE RStrip(_)
RStrip(s) ==
    IF s = "" THEN ""
    ELSE IF CharAt(s, Len(s)) \in Whitespace THEN RStrip(SubSeq(s, 1, Len(s) - 1))
    ELSE s

RECURSIVE LStrip(_)
LStrip(s) ==
    IF s = "" THEN ""
    ELSE IF CharAt(s, 1) \in Whitespace THEN LStrip(SubSeq(s, 2, Len(s)))
    ELSE s

Strip(s) == LStrip(RStrip(s))

(***************************************************************************)
(* Paths: pathlib.Path as the sequence of its components.                  *)
(***************************************************************************)
\* str(path)
RECURSIVE PathStr(_)
PathStr(p) ==
    IF Len(p) = 0 THEN "."
    ELSE IF Len(p) = 1 THEN p[1]
    ELSE p[1] \o "/" \o PathStr(Tail(p))

\* path.parents[n]
Parents(p, n) == SubSeq(p, 1, Len(p) - (n + 1))

\* Path('dependencies/lock-files/')
LockDir == << "dependencies", "lock-files" >>

\* pip_constraint_helpers.get_constraint_file_path: the constraint file of
\* (req_dir, toxenv, python_tag), one file name under req_dir.
GetConstraintFilePath(req_dir, toxenv, tag) ==
    Append(req_dir, toxenv \o "-" \o tag \o ".txt")

\* pip_constraint_helpers.get_runtime_python_tag: fixed for one process.
PythonTags == { "cp311", "cp312" }


(***************************************************************************)
(* The pip-compile in-memory environments.                                 *)
(***************************************************************************)
\* Optional[tuple[str, ...]]
NoneValue == [is_none |-> TRUE, value |-> << >>]
Some(t) == [is_none |-> FALSE, value |-> t]

\* bool(pos): None and () are falsy
Truthy(pos) == ~pos.is_none /\ Len(pos.value) > 0

PipCompileToxEnv == "pip-compile"
PipCompileBuildLockToxEnv == "pip-compile-build-lock"
PipCompileToxEnvLockToxEnv == "pip-compile-tox-env-lock"

pip_compile_env_clss ==
    { PipCompileToxEnv, PipCompileBuildLockToxEnv, PipCompileToxEnvLockToxEnv }

\* a variant of ToxEnvLockFirstArgs taking the last trailing argument
ToxEnvLockFirstArgsLast(pos, tag) ==
    IF ~Truthy(pos) THEN << >>
    ELSE LET toxenv == pos.value[Len(pos.value)]
             lock_file_name == GetConstraintFilePath(LockDir, toxenv, tag)
         IN  << "--output-file=" \o PathStr(lock_file_name),
                PathStr(Parents(lock_file_name, 1)
                        \o << "direct", toxenv \o ".in" >>) >>

\* PipCompileToxEnvLockToxEnv._first_args (a Path is always truthy, so the
\* `if lock_file_name else ''` always takes its first arm)
ToxEnvLockFirstArgs(pos, tag) ==
    IF ~Truthy(pos) THEN << >>
    ELSE LET toxenv == pos.value[1]
             lock_file_name == GetConstraintFilePath(LockDir, toxenv, tag)
         IN  << "--output-file=" \o PathStr(lock_file_name),
                PathStr(Parents(lock_file_name, 1)
                        \o << "direct", toxenv \o ".in" >>) >>

\* PipCompileBuildLockToxEnv._first_args
BuildLockFirstArgs ==
    << "--only-build-deps",
       "--all-build-deps",
       "--output-file=dependencies/lock-files/dist-build-constraints.txt" >>

\* _first_args of each class
FirstArgs(name, pos, tag) ==
    CASE name = PipCompileToxEnv -> << >>
      [] name = PipCompileBuildLockToxEnv -> BuildLockFirstArgs
      [] name = PipCompileToxEnvLockToxEnv -> ToxEnvLockFirstArgs(pos, tag)

PipCompilePrefix ==
    << "python", "-b", "-E", "-s", "-I", "-Werror", "-m", "piptools", "compile" >>

\* a variant of Commands that always puts the `--help` placeholder when no
\* trailing arguments were given
CommandsHelpByPosArgs(name, pos, tag) ==
    LET first == FirstArgs(name, pos, tag)
        trailing == IF Truthy(pos) THEN pos.value ELSE << "--help" >>
    IN  << ShlexJoin(PipCompilePrefix \o first \o trailing) >>

\* PipCompileToxEnvBase.commands
Commands(name, pos, tag) ==
    LET first == FirstArgs(name, pos, tag)
        trailing == IF Len(first) > 0
                    THEN (IF ~pos.is_none THEN pos.value ELSE << >>)
                    ELSE << "--help" >>
    IN  << ShlexJoin(PipCompilePrefix \o first \o trailing) >>

_description(name) ==
    CASE name = PipCompileToxEnv -> "Invoke pip-compile of pip-tools"
      [] name = PipCompileBuildLockToxEnv -> "Produce a PEP 517/660 build deps lock"
      [] name = PipCompileToxEnvLockToxEnv ->
            "Produce a lock file for the passed tox env using current python"

\* PipCompileToxEnvBase.description
Description(name) == "[tox-lock] " \o _description(name)

\* PipCompileToxEnvBase.set_env
SetEnv(name, pos) ==
    LET cmd_posargs_trailer ==
            IF ~pos.is_none THEN RStrip(" -- " \o ShlexJoin(pos.value)) ELSE ""
    IN  [CUSTOM_COMPILE_COMMAND |->
            "tox run -qq -e " \o name \o cmd_posargs_trailer]

\* PipCompileToxEnvBase.to_memory_loader
ToMemoryLoader(name, pos, tag) ==
    [ base |-> << >>,
      commands_pre |-> << >>,
      commands |-> Commands(name, pos, tag),
      commands_post |-> << >>,
      deps |-> << "pip-tools" >>,
      description |-> Description(name),
      package |-> "skip",
      set_env |-> SetEnv(name, pos) ]

\* the trailing arguments a tox invocation can carry
PosArgTokens == { "--upgrade", "myenv", "my env", "" }

RECURSIVE TuplesUpTo(_)
TuplesUpTo(n) ==
    IF n = 0 THEN { << >> }
    ELSE LET shorter == TuplesUpTo(n - 1)
         IN  shorter \cup { Append(t, a) : t \in shorter, a \in PosArgTokens }

PosArgsChoices == { NoneValue } \cup { Some(t) : t \in TuplesUpTo(MaxPosArgs) }

\* the orders in which a set of three classes can be iterated
Orderings(S) ==
    { q \in [1..Cardinality(S) -> S] : \A a \in S : \E i \in DOMAIN q : q[i] = a }

\* VirtualEnvRunner.id(), Pep517VirtualEnvPackager.id(), VirtualEnvCmdBuilder.id()
_PINNED_PREFIX == "pinned-"
VirtualEnvRunnerId == "virtualenv"
Pep517VirtualEnvPackagerId == "virtualenv-pep-517"
VirtualEnvCmdBuilderId == "virtualenv-cmd-builder"

InitLock ==
    /\ python_tag \in PythonTags
    /\ pos_args \in PosArgsChoices
    /\ memory_seed_loaders = [n \in pip_compile_env_clss |-> << >>]
    /\ extended_envs = << >>
    /\ register = [ run_envs |-> { VirtualEnvRunnerId },
                    package_envs |-> { Pep517VirtualEnvPackagerId,
                                       VirtualEnvCmdBuilderId },
                    _default_run_env |-> VirtualEnvRunnerId ]

\* tox_register_tox_env: the host calls it once, at start-up
tox_register_tox_env ==
    /\ (_PINNED_PREFIX \o VirtualEnvRunnerId) \notin register.run_envs
    /\ register' =
          [ run_envs |-> register.run_envs
                            \cup { _PINNED_PREFIX \o VirtualEnvRunnerId },
            package_envs |-> register.package_envs
                            \cup { _PINNED_PREFIX \o Pep517VirtualEnvPackagerId,
                                   _PINNED_PREFIX \o VirtualEnvCmdBuilderId },
            _default_run_env |-> _PINNED_PREFIX \o VirtualEnvRunnerId ]
    /\ UNCHANGED << python_tag, pos_args, memory_seed_loaders, extended_envs,
                    installerVars, hookVars >>

\* tox_extend_envs: the names of the three classes, in the iteration order
\* of the set pip_compile_env_clss, which the language does not fix
tox_extend_envs ==
    /\ extended_envs = << >>
    /\ extended_envs' \in Orderings(pip_compile_env_clss)
    /\ UNCHANGED << python_tag, pos_args, memory_seed_loaders, register,
                    installerVars, hookVars >>

\* tox_add_core_config: one descriptor per class, built from the trailing
\* arguments, its loader appended to the env's in-memory loaders
tox_add_core_config ==
    /\ \A n \in pip_compile_env_clss :
          Len(memory_seed_loaders[n]) < MaxCoreConfigCalls
    /\ memory_seed_loaders' =
          [n \in pip_compile_env_clss |->
              Append(memory_seed_loaders[n],
                     ToMemoryLoader(n, pos_args, python_tag))]
    /\ UNCHANGED << python_tag, pos_args, extended_envs, register,
                    installerVars, hookVars >>

(***************************************************************************)
(* PinnedPipInstaller.                                                     *)
(***************************************************************************)

EnvObjs == 1..NumEnvs
Cmds == 1..NumCmds
EnvNames == { "py", "lint" }

ConstraintCliArg(path) == "--constraint=" \o PathStr(path)

\* `arg in cmd.args`
InArgs(arg, args) == \E i \in DOMAIN args : args[i] = arg

\* a variant that consults the warned set before the disk
PostProcessStale(args, path, is_file, non_existing) ==
    LET constraint_cli_arg == ConstraintCliArg(path)
    IN  IF InArgs(constraint_cli_arg, args)
        THEN [args |-> args, non_existing |-> non_existing, logs |-> << "debug" >>]
        ELSE IF is_file /\ path \notin non_existing
        THEN [args |-> Append(args, constraint_cli_arg),
              non_existing |-> non_existing,
              logs |-> << "info", "debug" >>]
        ELSE [args |-> args,
              non_existing |-> non_existing \cup { path },
              logs |-> IF path \notin non_existing /\ ~is_file
                       THEN << "warning" >> ELSE << >>]

\* a variant without the already-present check
PostProcessNoPresenceCheck(args, path, is_file, non_existing) ==
    LET constraint_cli_arg == ConstraintCliArg(path)
    IN  IF is_file
        THEN [args |-> Append(args, constraint_cli_arg),
              non_existing |-> non_existing,
              logs |-> << "info", "debug" >>]
        ELSE [args |-> args,
              non_existing |-> non_existing \cup { path },
              logs |-> IF path \notin non_existing
                       THEN << "warning" >> ELSE << >>]

\* a variant that puts the flag in front of the arguments
PostProcessPrepend(args, path, is_file, non_existing) ==
    LET constraint_cli_arg == ConstraintCliArg(path)
    IN  IF InArgs(constraint_cli_arg, args)
        THEN [args |-> args, non_existing |-> non_existing, logs |-> << "debug" >>]
        ELSE IF is_file
        THEN [args |-> << constraint_cli_arg >> \o args,
              non_existing |-> non_existing,
              logs |-> << "info", "debug" >>]
        ELSE [args |-> args,
              non_existing |-> non_existing \cup { path },
              logs |-> IF path \notin non_existing
                       THEN << "warning" >> ELSE << >>]

\* PinnedPipInstaller.post_process_install_command, up to the call of the
\* superclass: the argument list handed on, the warned set and what is logged
PostProcess(args, path, is_file, non_existing) ==
    LET constraint_cli_arg == ConstraintCliArg(path)
    IN  IF InArgs(constraint_cli_arg, args)
        THEN [args |-> args, non_existing |-> non_existing, logs |-> << "debug" >>]
        ELSE IF is_file
        THEN [args |-> Append(args, constraint_cli_arg),
              non_existing |-> non_existing,
              logs |-> << "info", "debug" >>]
        ELSE [args |-> args,
              non_existing |-> non_existing \cup { path },
              logs |-> IF path \notin non_existing
                       THEN << "warning" >> ELSE << >>]

\* the constraint file of env object e
ConstraintFilePath(e) == GetConstraintFilePath(LockDir, env_name[e], python_tag)

AllPaths == { GetConstraintFilePath(LockDir, n, python_tag) : n \in EnvNames }

\* the host's default install_command, and one to which the configuration
\* already gave the constraint flag of the env named "py"
DefaultInstallCommand ==
    << "python", "-I", "-m", "pip", "install", "{opts}", "{packages}" >>

InitialArgs ==
    { DefaultInstallCommand,
      Append(DefaultInstallCommand,
             ConstraintCliArg(GetConstraintFilePath(LockDir, "py", python_tag))) }

NoCall ==
    [ op |-> "none", env |-> 0, cmd |-> 0, path |-> << >>, args_before |-> << >>,
      is_file |-> FALSE, non_existing_before |-> {}, seen_before |-> FALSE,
      logs |-> << >> ]

InitInstaller ==
    /\ python_tag = "cp312"
    /\ env_name \in [EnvObjs -> EnvNames]
    /\ installer = {}
    /\ _non_existing_constraint_files = {}
    /\ files \in SUBSET AllPaths
    /\ cmd_args \in [Cmds -> InitialArgs]
    /\ missing_seen = {}
    /\ last_call = NoCall

\* PinnedPipInstallerSelectedMixin.installer: built on first access, cached
installer_property(e) ==
    /\ e \notin installer
    /\ installer' = installer \cup { e }
    /\ UNCHANGED << python_tag, env_name, _non_existing_constraint_files, files,
                    cmd_args, missing_seen, last_call, lockVars, hookVars >>

\* PinnedPipInstaller.post_process_install_command(cmd) of env e's installer
post_process_install_command(e, c) ==
    /\ e \in installer
    /\ LET path == ConstraintFilePath(e)
           is_file == path \in files
           out == PostProcess(cmd_args[c], path, is_file,
                              _non_existing_constraint_files)
           missing == ~InArgs(ConstraintCliArg(path), cmd_args[c]) /\ ~is_file
       IN  /\ cmd_args' = [cmd_args EXCEPT ![c] = out.args]
           /\ _non_existing_constraint_files' = out.non_existing
           /\ missing_seen' = IF missing THEN missing_seen \cup { e }
                              ELSE missing_seen
           /\ last_call' =
                 [ op |-> "post_process", env |-> e, cmd |-> c, path |-> path,
                   args_before |-> cmd_args[c], is_file |-> is_file,
                   non_existing_before |-> _non_existing_constraint_files,
                   seen_before |-> e \in missing_seen,
                   logs |-> out.logs ]
    /\ UNCHANGED << python_tag, env_name, installer, files, lockVars, hookVars >>

\* a constraint file is written to disk (by a lock environment, by hand)
CreateFile(p) ==
    /\ p \notin files
    /\ files' = files \cup { p }
    /\ UNCHANGED << python_tag, env_name, installer,
                    _non_existing_constraint_files, cmd_args, missing_seen,
                    last_call, lockVars, hookVars >>

\* a constraint file is removed from disk
RemoveFile(p) ==
    /\ p \in files
    /\ files' = files \ { p }
    /\ UNCHANGED << python_tag, env_name, installer,
                    _non_existing_constraint_files, cmd_args, missing_seen,
                    last_call, lockVars, hookVars >>

(***************************************************************************)
(* tox_before_run_commands.                                                *)
(***************************************************************************)

git_executable == "git"

HookEnvNames == { "build-dists", "lint" }

AllowlistChoices ==
    { << >>, << "make" >>, << "git" >>, << "git", "make" >> }

EnvironmentChoices ==
    { [PATH |-> "/usr/bin"],
      [PATH |-> "/usr/bin", SOURCE_DATE_EPOCH |-> "0"] }

\* git_log_outcome.exit_code and git_log_outcome.out
ExitCodes == { 0, 1, 128, -2 }
GitOutputs == { "1700000000\n", " 42 \n", "" }

NoHook ==
    [ fired |-> FALSE, ran_command |-> FALSE, returned |-> FALSE,
      exit_code |-> 0, out |-> "", allowlist_before |-> << >>,
      env_before |-> [PATH |-> "/usr/bin"], logs |-> << >> ]

InitHook ==
    /\ tox_env_name \in HookEnvNames
    /\ allowlist_externals \in AllowlistChoices
    /\ allowlist_initial = allowlist_externals
    /\ environment_variables \in EnvironmentChoices
    /\ hook_pc = "idle"
    /\ last_hook = NoHook

\* dict item assignment
SetItem(d, key, value) ==
    [k \in DOMAIN d \cup { key } |-> IF k = key THEN value ELSE d[k]]

\* a variant of AfterExecute that ignores the exit code
AfterExecuteIgnoringExitCode(env, exit_code, out) ==
    [ env |-> SetItem(env, "SOURCE_DATE_EPOCH", Strip(out)),
      logs |-> << "info" >> ]

\* tox_before_run_commands after tox_env.execute returned: the exit code
\* check, and the variable set from the trimmed output
AfterExecute(env, exit_code, out) ==
    IF exit_code # 0
    THEN [ env |-> env, logs |-> << "warning" >> ]
    ELSE [ env |-> SetItem(env, "SOURCE_DATE_EPOCH", Strip(out)),
           logs |-> << "info" >> ]

\* a variant of Pop that leaves the list as it is
PopNothing(list) == list

\* list.pop()
Pop(list) == SubSeq(list, 1, Len(list) - 1)

\* tox_before_run_commands for an env that is not build-dists
before_run_commands_other ==
    /\ hook_pc = "idle"
    /\ tox_env_name # "build-dists"
    /\ last_hook' =
          [ NoHook EXCEPT !.fired = TRUE, !.returned = TRUE,
                          !.allowlist_before = allowlist_externals,
                          !.env_before = environment_variables ]
    /\ UNCHANGED << tox_env_name, allowlist_externals, environment_variables,
                    hook_pc, allowlist_initial, python_tag, lockVars,
                    installerVars >>

\* tox_before_run_commands for build-dists, up to tox_env.execute(git_log_cmd)
before_run_commands_execute ==
    /\ hook_pc = "idle"
    /\ tox_env_name = "build-dists"
    /\ allowlist_externals' = Append(allowlist_externals, git_executable)
    /\ hook_pc' = "executing"
    /\ last_hook' =
          [ NoHook EXCEPT !.fired = TRUE, !.ran_command = TRUE,
                          !.allowlist_before = allowlist_externals,
                          !.env_before = environment_variables,
                          !.logs = << "debug" >> ]
    /\ UNCHANGED << tox_env_name, environment_variables, allowlist_initial,
                    python_tag, lockVars, installerVars >>

\* tox_before_run_commands for build-dists, from the return of
\* tox_env.execute to the end of the hook
before_run_commands_return(exit_code, out) ==
    /\ hook_pc = "executing"
    /\ allowlist_externals' = Pop(allowlist_externals)
    /\ LET after == AfterExecute(environment_variables, exit_code, out)
       IN  /\ environment_variables' = after.env
           /\ last_hook' =
                 [ last_hook EXCEPT !.returned = TRUE, !.exit_code = exit_code,
                                    !.out = out,
                                    !.logs = last_hook.logs \o after.logs ]
    /\ hook_pc' = "idle"
    /\ UNCHANGED << tox_env_name, allowlist_initial, python_tag, lockVars,
                    installerVars >>

(***************************************************************************)
(* The specifications: one per part of the plugin, the other parts idle.   *)
(***************************************************************************)
IdleLock ==
    /\ pos_args = NoneValue
    /\ memory_seed_loaders = [n \in pip_compile_env_clss |-> << >>]
    /\ extended_envs = << >>
    /\ register = [ run_envs |-> { VirtualEnvRunnerId },
                    package_envs |-> { Pep517VirtualEnvPackagerId,
                                       VirtualEnvCmdBuilderId },
                    _default_run_env |-> VirtualEnvRunnerId ]

IdleInstaller ==
    /\ env_name = [e \in EnvObjs |-> "py"]
    /\ installer = {}
    /\ _non_existing_constraint_files = {}
    /\ files = {}
    /\ cmd_args = [c \in Cmds |-> DefaultInstallCommand]
    /\ missing_seen = {}
    /\ last_call = NoCall

IdleHook ==
    /\ tox_env_name = "lint"
    /\ allowlist_externals = << >>
    /\ allowlist_initial = << >>
    /\ environment_variables = [PATH |-> "/usr/bin"]
    /\ hook_pc = "idle"
    /\ last_hook = NoHook

LockInit == InitLock /\ IdleInstaller /\ IdleHook

LockNext ==
    \/ tox_register_tox_env
    \/ tox_extend_envs
    \/ tox_add_core_config

SpecLock == LockInit /\ [][LockNext]_vars

InstallerInit == InitInstaller /\ IdleLock /\ IdleHook

InstallerNext ==
    \/ \E e \in EnvObjs : installer_property(e)
    \/ \E e \in EnvObjs, c \in Cmds : post_process_install_command(e, c)
    \/ \E p \in AllPaths : CreateFile(p)
    \/ \E p \in AllPaths : RemoveFile(p)

SpecInstaller == InstallerInit /\ [][InstallerNext]_vars

HookInit == InitHook /\ python_tag = "cp312" /\ IdleLock /\ IdleInstaller

HookNext ==
    \/ before_run_commands_other
    \/ before_run_commands_execute
    \/ \E exit_code \in ExitCodes, out \in GitOutputs :
         before_run_commands_return(exit_code, out)

SpecHook == HookInit /\ [][HookNext]_vars

(***************************************************************************)
(* The properties.                                                         *)
(***************************************************************************)
\* the rendered commands of the in-memory loaders of env `name`
RenderedCommands(name) ==
    { memory_seed_loaders[name][i].commands[1] :
        i \in DOMAIN memory_seed_loaders[name] }

\* C1: the rendered `pip-compile` command ends in `--help` when there are no
\* trailing arguments, ends in `--upgrade` and not in `--help` when the
\* trailing arguments are ["--upgrade"], and for any non-empty trailing
\* arguments ends in exactly those arguments.
C1_PipCompileEndsInTrailingArgs ==
    \A cmd \in RenderedCommands(PipCompileToxEnv) :
        /\ ~Truthy(pos_args) => EndsWith(cmd, " --help")
        /\ pos_args = Some(<< "--upgrade" >>) =>
              EndsWith(cmd, " --upgrade") /\ ~EndsWith(cmd, "--help")
        /\ Truthy(pos_args) =>
              EndsWith(cmd, " compile " \o ShlexJoin(pos_args.value))

BuildLockCommandLine ==
    "python -b -E -s -I -Werror -m piptools compile "
    \o "--only-build-deps --all-build-deps "
    \o "--output-file=dependencies/lock-files/dist-build-constraints.txt"

\* C10, as stated: the rendered `pip-compile-build-lock` command is the fixed
\* invocation and arguments, then `--help` when no trailing arguments were
\* supplied, or the trailing arguments verbatim.
C10_BuildLockHelpPlaceholder ==
    \A cmd \in RenderedCommands(PipCompileBuildLockToxEnv) :
        cmd = BuildLockCommandLine \o " "
                \o (IF Truthy(pos_args) THEN ShlexJoin(pos_args.value)
                    ELSE "--help")

\* C10, amended: the rendered `pip-compile-build-lock` command is the fixed
\* invocation and arguments, then the trailing arguments verbatim when there
\* are any, and nothing more (no `--help`) when none were supplied.
C10_BuildLockCommand ==
    \A cmd \in RenderedCommands(PipCompileBuildLockToxEnv) :
        cmd = BuildLockCommandLine
                \o (IF Truthy(pos_args) THEN " " \o ShlexJoin(pos_args.value)
                    ELSE "")

C10_Witness ==
    /\ RenderedCommands(PipCompileBuildLockToxEnv) # {}
    /\ pos_args.is_none

\* C6: with non-empty trailing arguments, the rendered
\* `pip-compile-tox-env-lock` command includes `--output-file=<P>`, P the
\* constraint path of (lock dir, first trailing argument, interpreter tag),
\* immediately followed by a path ending in `direct/<first argument>.in`.
C6_ToxEnvLockPaths ==
    \A cmd \in RenderedCommands(PipCompileToxEnvLockToxEnv) :
        Truthy(pos_args) =>
            LET toxenv == pos_args.value[1]
                P == PathStr(GetConstraintFilePath(LockDir, toxenv, python_tag))
                input == "dependencies/direct/" \o toxenv \o ".in"
            IN  /\ Contains(cmd, "--output-file=" \o P)
                /\ Contains(cmd, " " \o ShlexQuote("--output-file=" \o P)
                                     \o " " \o ShlexQuote(input) \o " ")
                /\ EndsWith(input, "direct/" \o toxenv \o ".in")
                /\ toxenv = "myenv" =>
                      Contains(cmd, " --output-file=dependencies/lock-files/myenv-"
                                    \o python_tag
                                    \o ".txt dependencies/direct/myenv.in ")

C6_Witness ==
    /\ RenderedCommands(PipCompileToxEnvLockToxEnv) # {}
    /\ pos_args = Some(<< "myenv" >>)

\* the latest call, its flag and the branch it took
CallFlag ==
    ConstraintCliArg(
        GetConstraintFilePath(LockDir, env_name[last_call.env], python_tag))
Called == last_call.op = "post_process"
FlagWasPresent == InArgs(CallFlag, last_call.args_before)
MissingBranch == Called /\ ~FlagWasPresent /\ ~last_call.is_file
Warned == InArgs("warning", last_call.logs)

\* C2, as stated: whenever the constraint file exists, one call appends
\* exactly one `--constraint=<path>` at the end of the argument list.
C2_AppendsWheneverFileExists ==
    Called /\ last_call.is_file =>
        cmd_args[last_call.cmd] = Append(last_call.args_before, CallFlag)

\* C2, amended: when the constraint file exists and the flag is not yet in
\* the argument list, one call appends exactly one `--constraint=<path>` at
\* the end, <path> being the constraint path of (lock dir, env name, tag).
C2_AppendsOnce ==
    Called /\ last_call.is_file /\ ~FlagWasPresent =>
        cmd_args[last_call.cmd] = Append(last_call.args_before, CallFlag)

C2_Witness == Called /\ last_call.is_file /\ ~FlagWasPresent

Count(arg, args) == Cardinality({ i \in DOMAIN args : args[i] = arg })

\* C3: a call on an argument list that already holds the flag of the env's
\* constraint path leaves the list unchanged, whether or not the file exists
\* or the path was warned about; and no call, of any installer, changes how
\* often a constraint flag that is in the list occurs in it.
C3_PresentFlagIsKept ==
    Called =>
        /\ FlagWasPresent => cmd_args[last_call.cmd] = last_call.args_before
        /\ \A p \in AllPaths :
              InArgs(ConstraintCliArg(p), last_call.args_before) =>
                  Count(ConstraintCliArg(p), cmd_args[last_call.cmd])
                      = Count(ConstraintCliArg(p), last_call.args_before)

C3_Witness ==
    /\ Called /\ FlagWasPresent /\ last_call.is_file
    /\ last_call.path \in last_call.non_existing_before

\* C4: on the missing-file branch the first call of an installer instance
\* logs a warning and records the path, every later call of that instance
\* logs none, and the argument list is unchanged in each.
C4_WarnsOncePerInstance ==
    MissingBranch =>
        /\ ~last_call.seen_before => Warned
        /\ last_call.seen_before => ~Warned
        /\ last_call.path \in _non_existing_constraint_files
        /\ cmd_args[last_call.cmd] = last_call.args_before

\* C7: the first missing-file call of an installer instance logs a warning
\* even if another instance already warned about the same path.
C7_WarnedSetIsPerInstance ==
    /\ MissingBranch
    /\ ~last_call.seen_before
    /\ last_call.path \in last_call.non_existing_before
    => Warned

\* C8, as stated: once an installer instance took the missing-file branch,
\* a later call of it at which the file exists does not append the flag.
C8_StaysStale ==
    Called /\ last_call.seen_before /\ last_call.is_file =>
        cmd_args[last_call.cmd] = last_call.args_before

\* C8, amended: the warned set is never cleared, but it only suppresses
\* warnings: a later call of the same instance at which the file exists and
\* the flag is absent appends `--constraint=<path>`.
C8_WarnedSetOnlyGrows ==
    Called =>
        /\ last_call.non_existing_before \subseteq _non_existing_constraint_files
        /\ last_call.seen_before =>
              last_call.path \in _non_existing_constraint_files
        /\ last_call.seen_before /\ last_call.is_file /\ ~FlagWasPresent =>
              cmd_args[last_call.cmd] = Append(last_call.args_before, CallFlag)

C8_Witness ==
    Called /\ last_call.seen_before /\ last_call.is_file /\ ~FlagWasPresent

\* C5: for build-dists, a non-zero exit code of the git invocation leaves the
\* environment variables as they were before the hook; for any other env the
\* hook runs no command and changes nothing.
C5_NoVariableOnFailure ==
    /\ last_hook.returned /\ last_hook.ran_command /\ last_hook.exit_code # 0
         => environment_variables = last_hook.env_before
    /\ last_hook.fired /\ tox_env_name # "build-dists"
         => /\ ~last_hook.ran_command
            /\ hook_pc = "idle"
            /\ environment_variables = last_hook.env_before
            /\ allowlist_externals = last_hook.allowlist_before

C5_Witness ==
    /\ last_hook.returned /\ last_hook.ran_command /\ last_hook.exit_code = 128
    /\ "SOURCE_DATE_EPOCH" \notin DOMAIN environment_variables

\* C9, as stated: when the hook has returned the allow-list equals its value
\* before the hook, git is in the list only while the command executes, and
\* the list has not grown.
C9_GitListedOnlyWhileExecuting ==
    /\ last_hook.returned => allowlist_externals = last_hook.allowlist_before
    /\ last_hook.ran_command /\ InArgs(git_executable, allowlist_externals)
         => hook_pc = "executing"
    /\ hook_pc = "idle" => Len(allowlist_externals) <= Len(allowlist_initial)

\* C9, amended: when the hook has returned the allow-list equals its value
\* before the hook; the entry the hook adds for git is in the list only
\* while the command executes (git stays listed if the configuration listed
\* it); after any number of firings the list is the configured one.
C9_AllowlistRestored ==
    /\ last_hook.returned => allowlist_externals = last_hook.allowlist_before
    /\ hook_pc = "executing" =>
          allowlist_externals = Append(allowlist_initial, git_executable)
    /\ hook_pc = "idle" => allowlist_externals = allowlist_initial

C9_Witness ==
    /\ last_hook.returned /\ last_hook.ran_command /\ last_hook.exit_code = 0
    /\ allowlist_initial # << >>

====
